---- MODULE Spec2Model ----
(***************************************************************************)
(* Asset variant and generation-state management of lumenx-studio          *)
(* (src/apps/comic_gen): variant pools (ImageAsset), the retention policy  *)
(* cleanup_old_variants, the asset generators and the pipeline handlers    *)
(* that select, delete and favorite variants.                              *)
(*                                                                         *)
(* Conventions.  None is 0: a variant id, a url and a selected_id are      *)
(* positive naturals when set (Python tests them with `not x`).  A local   *)
(* file path embeds the variant's uuid, so a variant's url is modelled by  *)
(* its id.  time.time() is the counter `now`; every variant creation and   *)
(* every *_updated_at stamp reads it and lets it advance.                  *)
(***************************************************************************)
EXTENDS Integers, Sequences, FiniteSets, TLC

VARIABLES now, next_id, character, scene, prop, frame, last, retention

\* The video tasks of the project.  heap holds the VideoTask objects, a
\* reference being an index into it; video_tasks is script.video_tasks and
\* video_assets[a] the video_assets field of entity a, both lists of
\* references; threads are the background calls of process_video_task,
\* handler the request being served, save_lock the pipeline's _save_lock.
\* A request on the pools of an entity is one action: its _save_data takes
\* and releases the lock within the action and leaves these as they were.
VARIABLES heap, video_tasks, video_assets, threads, handler, save_lock

videoVars == <<heap, video_tasks, video_assets, threads, handler, save_lock>>

VARIABLES script, generation

styleVars == <<script, generation>>

vars ==
    <<now, next_id, character, scene, prop, frame, last, retention, videoVars,
      styleVars>>

None == 0

\* models.py: MAX_VARIANTS_PER_ASSET
MAX_VARIANTS_PER_ASSET == 10
\* _generate_wan_i2v_http: seconds waited at most, and between two polls
max_wait_time == 900
poll_interval == 15

(***************************************************************************)
(* Bounds of the model.                                                    *)
(***************************************************************************)
\* largest batch_size of a single-stage generation request
MaxBatch == 3
\* largest batch_size of a generation_type = "all" request
MaxAllBatch == 1
\* variants created in SpecScene and in SpecFrame
MaxIds == 4
\* the longest pool handed to cleanup_old_variants in SpecCleanup
MaxPoolLen == 12
\* favorited variants of the pool in SpecCharRetention
MaxFavorites == 2
\* variants created in SpecCharRetention and SpecSceneRetention: one more
\* than MAX_VARIANTS_PER_ASSET
MaxRetentionIds == 11
\* the clock value up to which SpecCharacter requests generations
MaxClock == 11
\* variants created in SpecCharacter
MaxCharIds == 5
\* the largest id an uploaded source variant may take
MaxUploadIds == 2
\* video tasks created in SpecVideo
MaxTasks == 2
\* the largest id a scene variant may take in SpecVideoSource
MaxSourceRegenIds == 3
\* video tasks created in SpecVideoSource
MaxSourcedTasks == 1
\* the largest variant id in SpecLock
MaxLockIds == 3
\* the largest variant id and the latest clock reading in SpecStyle
MaxStyleIds == 2
MaxStyleClock == 6
\* video tasks created in SpecFrameVideo
MaxSelectTasks == 2
\* video tasks created in SpecPoll
MaxPolledTasks == 2
\* video tasks created in SpecSave
MaxSavedTasks == 3
\* calls of process_video_task in SpecVideoRetry
MaxCalls == 3
\* video tasks created in SpecVideoRetry
MaxRetryTasks == 1
\* the largest id a scene variant may take in SpecVideo
MaxSourceIds == 1

(***************************************************************************)
(* Sequences.                                                              *)
(***************************************************************************)
Reverse(s) == [i \in 1..Len(s) |-> s[Len(s) + 1 - i]]

Ids(s) == {s[i].id : i \in 1..Len(s)}

\* next((v for v in variants if v.id == id), None): the index, 0 when absent
RECURSIVE IndexOfId(_, _, _)
IndexOfId(s, id, i) ==
    IF i > Len(s) THEN 0
    ELSE IF s[i].id = id THEN i
    ELSE IndexOfId(s, id, i + 1)

(***************************************************************************)
(* ImageVariant and ImageAsset (models.py).                                *)
(***************************************************************************)
ImageVariant(id, created_at) ==
    [id |-> id, url |-> id, created_at |-> created_at,
     is_favorited |-> FALSE, is_uploaded_source |-> FALSE]

ImageAsset == [selected_id |-> None, variants |-> <<>>]

\* [v for v in variants if not v.is_favorited]
NonFavorited(variants) ==
    LET Keep(v) == ~v.is_favorited IN SelectSeq(variants, Keep)

\* [v for v in variants if v.is_favorited]
Favorited(variants) ==
    LET Keep(v) == v.is_favorited IN SelectSeq(variants, Keep)

(***************************************************************************)
(* cleanup_old_variants (assets.py).  list.sort is stable: a variant goes  *)
(* after every variant already placed whose created_at is <= its own.      *)
(***************************************************************************)
RECURSIVE InsertByCreatedAt(_, _)
InsertByCreatedAt(sorted, v) ==
    IF sorted = <<>> THEN <<v>>
    ELSE IF sorted[Len(sorted)].created_at <= v.created_at
         THEN Append(sorted, v)
         ELSE Append(InsertByCreatedAt(SubSeq(sorted, 1, Len(sorted) - 1), v),
                     sorted[Len(sorted)])

RECURSIVE SortByCreatedAt(_)
SortByCreatedAt(s) ==
    IF s = <<>> THEN <<>>
    ELSE InsertByCreatedAt(SortByCreatedAt(SubSeq(s, 1, Len(s) - 1)), s[Len(s)])

\* a cut that keeps the head of the sorted list: the oldest instead of the newest
KeptNonFavoritedOldest(variants) ==
    LET non_favorited == SortByCreatedAt(NonFavorited(variants))
        n == Len(non_favorited)
    IN  IF n > MAX_VARIANTS_PER_ASSET
        THEN SubSeq(non_favorited, 1, MAX_VARIANTS_PER_ASSET)
        ELSE non_favorited

\* non_favorited after the sort and the cut to the newest MAX_VARIANTS_PER_ASSET
KeptNonFavorited(variants) ==
    LET non_favorited == SortByCreatedAt(NonFavorited(variants))
        n == Len(non_favorited)
    IN  IF n > MAX_VARIANTS_PER_ASSET
        THEN SubSeq(non_favorited, n - MAX_VARIANTS_PER_ASSET + 1, n)
        ELSE non_favorited

CleanupOldVariants(image_asset) ==
    IF image_asset.variants = <<>> THEN image_asset
    ELSE [image_asset EXCEPT
            !.variants = Favorited(image_asset.variants)
                         \o Reverse(KeptNonFavorited(image_asset.variants))]

(***************************************************************************)
(* Entities (models.py) as the project holds them after creation.          *)
(***************************************************************************)
GenerationTypes == {"full_body", "three_view", "headshot", "all"}

NewCharacter(created) ==
    [status |-> "pending",
     full_body_asset |-> ImageAsset,
     three_view_asset |-> ImageAsset,
     headshot_asset |-> ImageAsset,
     full_body_image_url |-> None,
     three_view_image_url |-> None,
     headshot_image_url |-> None,
     image_url |-> None,
     avatar_url |-> None,
     is_consistent |-> TRUE,
     full_body_updated_at |-> created,
     three_view_updated_at |-> 0,
     headshot_updated_at |-> 0,
     locked |-> FALSE]

\* Scene and Prop carry the same pool fields
NewScene ==
    [status |-> "pending", image_url |-> None, image_asset |-> ImageAsset,
     locked |-> FALSE]

NewFrame(created) ==
    [status |-> "pending",
     image_url |-> None,
     rendered_image_url |-> None,
     image_asset |-> ImageAsset,
     rendered_image_asset |-> ImageAsset,
     updated_at |-> created,
     selected_video_id |-> None,
     video_url |-> None]

\* the handler call that ran last, as its caller saw it
NoCall ==
    [op |-> "none", asset_type |-> "none", generation_type |-> "none",
     batch_size |-> 0, outcomes |-> <<>>, calls |-> 0, raised |-> FALSE,
     first_id |-> 0, variant_id |-> 0, selected_before |-> None]

AssetTypes == {"character", "scene", "prop"}

\* no request is being served
NoRequest ==
    [pc |-> "idle", op |-> "none", task |-> None, write_failed |-> FALSE,
     raised |-> FALSE]

\* a project without video tasks, the lock free
InitVideo ==
    /\ heap = <<>>
    /\ video_tasks = <<>>
    /\ video_assets = [a \in AssetTypes |-> <<>>]
    /\ threads = <<>>
    /\ handler = NoRequest
    /\ save_lock = FALSE

\* dict.get(key, default); a dict is a function on the keys it holds, and
\* the empty dict is falsy
Get(dict, key, default) == IF key \in DOMAIN dict THEN dict[key] ELSE default

\* Script's style fields: the legacy style_preset and style_prompt, and
\* art_direction, <<>> for None and <<style_config>> for an ArtDirection.
\* A string that is None is modelled as "": the code only tests its truth.
NewScript == [style_preset |-> "realistic", style_prompt |-> "", art_direction |-> <<>>]

\* generate_asset's style arguments at their defaults
DefaultStyle ==
    [apply_style |-> TRUE, style_prompt |-> "", style_preset |-> "",
     negative_prompt |-> ""]

\* the style arguments of the last generate_asset call, the style it
\* computed, and the entity status each of its _save_data calls dumped, in
\* call order
NoGeneration ==
    [request |-> DefaultStyle, effective_positive_prompt |-> "",
     effective_negative_prompt |-> "", saved |-> <<>>]

InitStyle ==
    /\ script = NewScript
    /\ generation = NoGeneration

NoRetention == [applied |-> 0, input |-> ImageAsset, once |-> ImageAsset, twice |-> ImageAsset]

Init ==
    /\ now = 3
    /\ next_id = 1
    /\ character = NewCharacter(1)
    /\ scene = NewScene
    /\ prop = NewScene
    /\ frame = NewFrame(2)
    /\ last = NoCall
    /\ retention = NoRetention
    /\ InitVideo
    /\ InitStyle

(***************************************************************************)
(* The batch loops of the generators (assets.py).  `outcomes` is the       *)
(* backend: the j-th call of self.model.generate made by the handler       *)
(* returns when outcomes[j] and raises otherwise.  A loop state carries    *)
(* the pool, the url of the variant auto-selected last (for the legacy     *)
(* field), the clock, the next uuid, the successes and the calls made.     *)
(***************************************************************************)
\* a loop that leaves at the first backend failure instead of continuing
RECURSIVE CharacterBatchAbort(_, _, _, _)
CharacterBatchAbort(st, outcomes, i, batch_size) ==
    LET variant == ImageVariant(st.next_id, st.now)
        Inserted(cleaned) ==
            LET auto == cleaned.selected_id = None \/ batch_size = 1
            IN  [asset |-> IF auto THEN [cleaned EXCEPT !.selected_id = variant.id]
                                   ELSE cleaned,
                 synced |-> IF auto THEN variant.url ELSE st.synced,
                 now |-> st.now + 1,
                 next_id |-> st.next_id + 1,
                 ok |-> st.ok + 1,
                 calls |-> st.calls + 1]
    IN  IF i > batch_size THEN st
        ELSE IF ~outcomes[st.calls + 1]
        THEN [st EXCEPT !.calls = @ + 1]
        ELSE CharacterBatchAbort(
                 Inserted(CleanupOldVariants(
                              [st.asset EXCEPT !.variants = <<variant>> \o @])),
                 outcomes, i + 1, batch_size)

\* generate_character: for i in range(batch_size) with try/except/continue;
\* variants.insert(0, variant), cleanup_old_variants, auto-select
RECURSIVE CharacterBatch(_, _, _, _)
CharacterBatch(st, outcomes, i, batch_size) ==
    LET variant == ImageVariant(st.next_id, st.now)
        Inserted(cleaned) ==
            LET auto == cleaned.selected_id = None \/ batch_size = 1
            IN  [asset |-> IF auto THEN [cleaned EXCEPT !.selected_id = variant.id]
                                   ELSE cleaned,
                 synced |-> IF auto THEN variant.url ELSE st.synced,
                 now |-> st.now + 1,
                 next_id |-> st.next_id + 1,
                 ok |-> st.ok + 1,
                 calls |-> st.calls + 1]
    IN  IF i > batch_size THEN st
        ELSE IF ~outcomes[st.calls + 1]
        THEN CharacterBatch([st EXCEPT !.calls = @ + 1], outcomes, i + 1, batch_size)
        ELSE CharacterBatch(
                 Inserted(CleanupOldVariants(
                              [st.asset EXCEPT !.variants = <<variant>> \o @])),
                 outcomes, i + 1, batch_size)

\* generate_scene / generate_prop: for _ in range(batch_size) inside one try;
\* a backend failure leaves the loop (raised)
RECURSIVE SceneBatch(_, _, _, _)
SceneBatch(st, outcomes, i, batch_size) ==
    LET variant == ImageVariant(st.next_id, st.now)
        Inserted(inserted) ==
            LET auto == inserted.selected_id = None \/ batch_size = 1
            IN  [asset |-> IF auto THEN [inserted EXCEPT !.selected_id = variant.id]
                                   ELSE inserted,
                 synced |-> IF auto THEN variant.url ELSE st.synced,
                 now |-> st.now + 1,
                 next_id |-> st.next_id + 1,
                 ok |-> st.ok + 1,
                 calls |-> st.calls + 1,
                 raised |-> FALSE]
    IN  IF i > batch_size THEN st
        ELSE IF ~outcomes[st.calls + 1]
        THEN [st EXCEPT !.calls = @ + 1, !.raised = TRUE]
        ELSE SceneBatch(Inserted([st.asset EXCEPT !.variants = <<variant>> \o @]),
                        outcomes, i + 1, batch_size)

\* generate_frame: variants.append, the latest always selected
RECURSIVE FrameBatch(_, _, _, _)
FrameBatch(st, outcomes, i, batch_size) ==
    LET variant == ImageVariant(st.next_id, st.now)
    IN  IF i > batch_size THEN st
        ELSE IF ~outcomes[st.calls + 1]
        THEN [st EXCEPT !.calls = @ + 1, !.raised = TRUE]
        ELSE FrameBatch(
                 [asset |-> [selected_id |-> variant.id,
                             variants |-> Append(st.asset.variants, variant)],
                  synced |-> st.synced,
                  now |-> st.now + 1,
                  next_id |-> st.next_id + 1,
                  ok |-> st.ok + 1,
                  calls |-> st.calls + 1,
                  raised |-> FALSE],
                 outcomes, i + 1, batch_size)

(***************************************************************************)
(* AssetGenerator.generate_character.  A run is the character, the clock,  *)
(* the next uuid, the successes of the stage that ran last and the backend *)
(* calls made so far.                                                      *)
(***************************************************************************)
StageStart(run, asset) ==
    [asset |-> asset, synced |-> None, now |-> run.now, next_id |-> run.next_id,
     ok |-> 0, calls |-> run.calls]

\* 1. Full Body (Master)
FullBodyStage(run, batch_size, outcomes) ==
    LET Done(b) ==
            [entity |-> [run.entity EXCEPT
                           !.full_body_asset = b.asset,
                           !.full_body_image_url = IF b.synced # None THEN b.synced ELSE @,
                           !.full_body_updated_at = b.now],
             now |-> b.now + 1, next_id |-> b.next_id, ok |-> b.ok, calls |-> b.calls]
    IN  Done(CharacterBatch(StageStart(run, run.entity.full_body_asset),
                            outcomes, 1, batch_size))

\* 2. Three View Sheet (Derived)
ThreeViewStage(run, batch_size, outcomes) ==
    LET Done(b) ==
            [entity |-> [run.entity EXCEPT
                           !.three_view_asset = b.asset,
                           !.three_view_image_url = IF b.synced # None THEN b.synced ELSE @,
                           !.image_url = IF b.synced # None THEN b.synced ELSE @,
                           !.three_view_updated_at = b.now],
             now |-> b.now + 1, next_id |-> b.next_id, ok |-> b.ok, calls |-> b.calls]
    IN  Done(CharacterBatch(StageStart(run, run.entity.three_view_asset),
                            outcomes, 1, batch_size))

\* 3. Headshot (Derived)
HeadshotStage(run, batch_size, outcomes) ==
    LET Done(b) ==
            [entity |-> [run.entity EXCEPT
                           !.headshot_asset = b.asset,
                           !.headshot_image_url = IF b.synced # None THEN b.synced ELSE @,
                           !.avatar_url = IF b.synced # None THEN b.synced ELSE @,
                           !.headshot_updated_at = b.now],
             now |-> b.now + 1, next_id |-> b.next_id, ok |-> b.ok, calls |-> b.calls]
    IN  Done(CharacterBatch(StageStart(run, run.entity.headshot_asset),
                            outcomes, 1, batch_size))

\* next((v for v in asset.variants if v.is_uploaded_source), None).url
UploadedSourceUrl(asset) ==
    LET at == {i \in 1..Len(asset.variants) : asset.variants[i].is_uploaded_source}
    IN  IF at = {} THEN None
        ELSE asset.variants[CHOOSE i \in at : \A j \in at : i <= j].url

\* the selected full-body variant's url, else the legacy full_body_image_url
CurrentFullBodyUrl(c) ==
    LET idx == IndexOfId(c.full_body_asset.variants, c.full_body_asset.selected_id, 1)
    IN  IF c.full_body_asset.selected_id # None /\ idx # 0
        THEN c.full_body_asset.variants[idx].url
        ELSE c.full_body_image_url

\* an uploaded image to stand in for a missing full body
UploadedReferenceUrl(c, generation_type) ==
    IF CurrentFullBodyUrl(c) # None THEN None
    ELSE LET other == IF generation_type = "three_view"
                          THEN UploadedSourceUrl(c.headshot_asset)
                      ELSE IF generation_type = "headshot"
                          THEN UploadedSourceUrl(c.three_view_asset)
                      ELSE None
             own == UploadedSourceUrl(IF generation_type = "three_view"
                                      THEN c.three_view_asset ELSE c.headshot_asset)
         IN  IF other # None THEN other ELSE own

ReferenceUrl(c, generation_type) ==
    IF CurrentFullBodyUrl(c) # None THEN CurrentFullBodyUrl(c)
    ELSE UploadedReferenceUrl(c, generation_type)

\* except Exception: status = FAILED; raise
CharacterFailed(run) ==
    [entity |-> [run.entity EXCEPT !.status = "failed"],
     now |-> run.now, next_id |-> run.next_id, calls |-> run.calls, raised |-> TRUE]

\* a zero-success batch that falls through instead of raising
GenerateCharacterNoRaise(c, generation_type, batch_size, outcomes, t, id) ==
    LET start == [entity |-> [c EXCEPT !.status = "processing"],
                  now |-> t, next_id |-> id, ok |-> 1, calls |-> 0]
        Completed(s3) ==
            [entity |-> [s3.entity EXCEPT !.status = "completed"],
             now |-> s3.now, next_id |-> s3.next_id, calls |-> s3.calls,
             raised |-> FALSE]
        Headshot(s2) ==
            Completed(IF generation_type \in {"all", "headshot"}
                      THEN HeadshotStage(s2, batch_size, outcomes) ELSE s2)
        ThreeView(s1) ==
            Headshot(IF generation_type \in {"all", "three_view"}
                     THEN ThreeViewStage(s1, batch_size, outcomes) ELSE s1)
    IN  ThreeView(IF generation_type \in {"all", "full_body"}
                  THEN FullBodyStage(start, batch_size, outcomes) ELSE start)

\* generate_character: the stages generation_type asks for, in order; a stage
\* without a success raises, and so does a derived stage without a reference
GenerateCharacter(c, generation_type, batch_size, outcomes, t, id) ==
    LET start == [entity |-> [c EXCEPT !.status = "processing"],
                  now |-> t, next_id |-> id, ok |-> 1, calls |-> 0]
        Consistent(e3) ==
            IF generation_type = "all" THEN TRUE
            ELSE IF /\ e3.three_view_updated_at >= e3.full_body_updated_at
                    /\ e3.headshot_updated_at >= e3.full_body_updated_at
                 THEN TRUE
                 ELSE e3.is_consistent
        Completed(s3) ==
            IF s3.ok = 0 THEN CharacterFailed(s3)
            ELSE [entity |-> [s3.entity EXCEPT !.is_consistent = Consistent(s3.entity),
                                               !.status = "completed"],
                  now |-> s3.now, next_id |-> s3.next_id, calls |-> s3.calls,
                  raised |-> FALSE]
        Headshot(s2) ==
            IF s2.ok = 0 THEN CharacterFailed(s2)
            ELSE Completed(IF generation_type \in {"all", "headshot"}
                           THEN HeadshotStage(s2, batch_size, outcomes) ELSE s2)
        ThreeView(m1) ==
            IF /\ generation_type \in {"three_view", "headshot"}
               /\ ReferenceUrl(m1.entity, generation_type) = None
            THEN CharacterFailed(m1)
            ELSE Headshot(IF generation_type \in {"all", "three_view"}
                          THEN ThreeViewStage(m1, batch_size, outcomes) ELSE m1)
        Marked(s1) ==
            IF s1.ok = 0 THEN CharacterFailed(s1)
            ELSE ThreeView(IF generation_type = "full_body"
                           THEN [s1 EXCEPT !.entity.is_consistent = FALSE] ELSE s1)
    IN  Marked(IF generation_type \in {"all", "full_body"}
               THEN FullBodyStage(start, batch_size, outcomes) ELSE start)

(***************************************************************************)
(* AssetGenerator.generate_scene and generate_prop.                        *)
(***************************************************************************)
GenerateScene(s, batch_size, outcomes, t, id) ==
    LET Returned(b) ==
            [entity |-> [status |-> IF b.raised THEN "failed" ELSE "completed",
                         image_url |-> IF b.synced # None THEN b.synced ELSE s.image_url,
                         image_asset |-> b.asset],
             now |-> b.now, next_id |-> b.next_id, calls |-> b.calls,
             raised |-> b.raised]
    IN  Returned(SceneBatch([asset |-> s.image_asset, synced |-> None, now |-> t,
                             next_id |-> id, ok |-> 0, calls |-> 0, raised |-> FALSE],
                            outcomes, 1, batch_size))

GenerateProp(p, batch_size, outcomes, t, id) ==
    LET Returned(b) ==
            [entity |-> [status |-> IF b.raised THEN "failed" ELSE "completed",
                         image_url |-> IF b.synced # None THEN b.synced ELSE p.image_url,
                         image_asset |-> b.asset],
             now |-> b.now, next_id |-> b.next_id, calls |-> b.calls,
             raised |-> b.raised]
    IN  Returned(SceneBatch([asset |-> p.image_asset, synced |-> None, now |-> t,
                             next_id |-> id, ok |-> 0, calls |-> 0, raised |-> FALSE],
                            outcomes, 1, batch_size))

(***************************************************************************)
(* StoryboardGenerator.generate_frame (storyboard.py): the exception of a  *)
(* failed backend call is caught and logged, the frame is returned.        *)
(***************************************************************************)
GenerateFrame(f, batch_size, outcomes, t, id) ==
    LET Returned(b) ==
            LET idx == IndexOfId(b.asset.variants, b.asset.selected_id, 1)
                url == IF idx # 0 THEN b.asset.variants[idx].url ELSE None
            IN  IF b.raised
                THEN [entity |-> [f EXCEPT !.status = "failed",
                                           !.rendered_image_asset = b.asset],
                      now |-> b.now, next_id |-> b.next_id, calls |-> b.calls,
                      raised |-> FALSE]
                ELSE [entity |-> [f EXCEPT
                                    !.status = "completed",
                                    !.rendered_image_asset = b.asset,
                                    !.rendered_image_url = IF url # None THEN url ELSE @,
                                    !.image_url = IF url # None THEN url ELSE @,
                                    !.updated_at = b.now],
                      now |-> b.now + 1, next_id |-> b.next_id, calls |-> b.calls,
                      raised |-> FALSE]
    IN  Returned(FrameBatch([asset |-> f.rendered_image_asset, synced |-> None,
                             now |-> t, next_id |-> id, ok |-> 0, calls |-> 0,
                             raised |-> FALSE],
                            outcomes, 1, batch_size))

(***************************************************************************)
(* The pool helpers of ComicGenPipeline (pipeline.py).                     *)
(***************************************************************************)
\* _select_variant_in_asset: found is the index of the variant, 0 for None
SelectVariantInAsset(image_asset, variant_id) ==
    LET idx == IndexOfId(image_asset.variants, variant_id, 1)
    IN  [asset |-> IF idx # 0 THEN [image_asset EXCEPT !.selected_id = variant_id]
                              ELSE image_asset,
         url |-> IF idx # 0 THEN image_asset.variants[idx].url ELSE None,
         found |-> idx # 0]

\* a delete that leaves selected_id as it was
DeleteVariantInAssetKeepSelection(image_asset, variant_id) ==
    LET Keep(v) == v.id # variant_id
        rest == SelectSeq(image_asset.variants, Keep)
        deleted == Len(rest) < Len(image_asset.variants)
    IN  [asset |-> [image_asset EXCEPT !.variants = rest], deleted |-> deleted]

\* _delete_variant_in_asset
DeleteVariantInAsset(image_asset, variant_id) ==
    LET Keep(v) == v.id # variant_id
        rest == SelectSeq(image_asset.variants, Keep)
        deleted == Len(rest) < Len(image_asset.variants)
    IN  [asset |-> IF ~deleted THEN image_asset
                   ELSE [selected_id |->
                            IF image_asset.selected_id = variant_id
                            THEN (IF rest # <<>> THEN rest[Len(rest)].id ELSE None)
                            ELSE image_asset.selected_id,
                         variants |-> rest],
         deleted |-> deleted]

\* _set_variant_favorite
SetVariantFavorite(image_asset, variant_id, is_favorited) ==
    LET idx == IndexOfId(image_asset.variants, variant_id, 1)
    IN  [asset |-> IF idx # 0
                   THEN [image_asset EXCEPT !.variants[idx].is_favorited = is_favorited]
                   ELSE image_asset,
         found |-> idx # 0]

\* selected.url if selected else None, None when selected_id is not set
SelectedUrl(image_asset) ==
    LET idx == IndexOfId(image_asset.variants, image_asset.selected_id, 1)
    IN  IF image_asset.selected_id # None /\ idx # 0
        THEN image_asset.variants[idx].url ELSE None

(***************************************************************************)
(* The handlers of ComicGenPipeline (pipeline.py).  The API runs one       *)
(* handler at a time to its end; each is one action.                       *)
(***************************************************************************)
\* backend calls a generation request can make
NumCalls(asset_type, generation_type, batch_size) ==
    IF asset_type = "character" /\ generation_type = "all"
    THEN 3 * batch_size ELSE batch_size

\* the pool a request addresses
Pool(asset_type, generation_type) ==
    IF asset_type = "character"
    THEN (IF generation_type = "three_view" THEN character.three_view_asset
          ELSE IF generation_type = "headshot" THEN character.headshot_asset
          ELSE character.full_body_asset)
    ELSE IF asset_type = "scene" THEN scene.image_asset
    ELSE IF asset_type = "prop" THEN prop.image_asset
    ELSE frame.rendered_image_asset

\* the record of a handler call: its arguments, the backend calls it made,
\* whether it raised, and the next uuid and the pool's selection when it began
Called(op, asset_type, generation_type, batch_size, outcomes, calls, raised, variant_id) ==
    [op |-> op, asset_type |-> asset_type, generation_type |-> generation_type,
     batch_size |-> batch_size, outcomes |-> outcomes, calls |-> calls,
     raised |-> raised, first_id |-> next_id, variant_id |-> variant_id,
     selected_before |-> Pool(asset_type, generation_type).selected_id]

\* generate_asset's effective style: Art Direction > passed style > legacy
EffectiveStyle(s, request) ==
    LET negative_prompt == request.negative_prompt
        style_config == s.art_direction[1]
        global_neg == Get(style_config, "negative_prompt", "")
    IN  IF ~request.apply_style
        THEN [positive |-> "", negative |-> negative_prompt]
        ELSE IF s.art_direction # <<>> /\ DOMAIN style_config # {}
        THEN [positive |-> Get(style_config, "positive_prompt", ""),
              negative |-> IF global_neg # ""
                           THEN (IF negative_prompt # ""
                                 THEN negative_prompt \o ", " \o global_neg
                                 ELSE global_neg)
                           ELSE negative_prompt]
        ELSE IF request.style_prompt # ""
        THEN [positive |-> request.style_prompt, negative |-> negative_prompt]
        ELSE IF request.style_preset # ""
        THEN [positive |-> request.style_preset \o " style",
              negative |-> negative_prompt]
        ELSE IF s.style_preset # ""
        THEN [positive |-> s.style_preset \o " style"
                           \o (IF s.style_prompt # "" THEN ", " \o s.style_prompt
                               ELSE ""),
              negative |-> negative_prompt]
        ELSE [positive |-> "", negative |-> negative_prompt]

\* generate_asset saving for the last time before the final status is set
GenerateAssetSavesEarly(processing, final) == <<processing, processing>>

\* the statuses generate_asset's two _save_data calls dump: the one after
\* status = PROCESSING, and the one in the finally clause
GenerateAssetSaves(processing, final) == <<processing, final>>

\* generate_asset for an entity that exists, with its style arguments:
\* status = PROCESSING; the generator; COMPLETED, or FAILED and raise
GenerateAssetStyled(asset_type, generation_type, batch_size, outcomes, request) ==
    LET Returned(r) ==
            LET target == [r.entity EXCEPT
                             !.status = IF r.raised THEN "failed" ELSE "completed"]
            IN  /\ character' = IF asset_type = "character" THEN target ELSE character
                /\ scene' = IF asset_type = "scene" THEN target ELSE scene
                /\ prop' = IF asset_type = "prop" THEN target ELSE prop
                /\ now' = r.now
                /\ next_id' = r.next_id
                /\ last' = Called("generate_asset", asset_type, generation_type,
                                  batch_size, outcomes, r.calls, r.raised, None)
                /\ generation' =
                       [request |-> request,
                        effective_positive_prompt |->
                            EffectiveStyle(script, request).positive,
                        effective_negative_prompt |->
                            EffectiveStyle(script, request).negative,
                        saved |-> GenerateAssetSaves("processing", target.status)]
                /\ UNCHANGED <<frame, retention, videoVars, script>>
    IN  Returned(IF asset_type = "character"
                 THEN GenerateCharacter([character EXCEPT !.status = "processing"],
                                        generation_type, batch_size, outcomes, now, next_id)
                 ELSE IF asset_type = "scene"
                 THEN GenerateScene([scene EXCEPT !.status = "processing"],
                                    batch_size, outcomes, now, next_id)
                 ELSE GenerateProp([prop EXCEPT !.status = "processing"],
                                   batch_size, outcomes, now, next_id))

\* generate_asset called without style arguments
GenerateAsset(asset_type, generation_type, batch_size, outcomes) ==
    GenerateAssetStyled(asset_type, generation_type, batch_size, outcomes, DefaultStyle)

\* generate_storyboard_render
GenerateStoryboardRender(batch_size, outcomes) ==
    LET Returned(r) ==
            /\ frame' = r.entity
            /\ now' = r.now
            /\ next_id' = r.next_id
            /\ last' = Called("generate_storyboard_render", "storyboard_frame", "none",
                              batch_size, outcomes, r.calls, r.raised, None)
            /\ UNCHANGED <<character, scene, prop, retention, videoVars, styleVars>>
    IN  Returned(GenerateFrame([frame EXCEPT !.status = "processing"],
                               batch_size, outcomes, now, next_id))

\* select_asset_variant, asset_type == "character"
SelectCharacterVariant(c, variant_id, generation_type) ==
    LET fb == SelectVariantInAsset(c.full_body_asset, variant_id)
        tv == SelectVariantInAsset(c.three_view_asset, variant_id)
        hs == SelectVariantInAsset(c.headshot_asset, variant_id)
        in_full_body == [c EXCEPT !.full_body_asset = fb.asset,
                                  !.full_body_image_url = fb.url,
                                  !.image_url = fb.url]
        in_three_view == [c EXCEPT !.three_view_asset = tv.asset,
                                   !.three_view_image_url = tv.url]
        in_headshot == [c EXCEPT !.headshot_asset = hs.asset,
                                 !.headshot_image_url = hs.url,
                                 !.avatar_url = hs.url]
    IN  IF generation_type = "full_body" THEN (IF fb.found THEN in_full_body ELSE c)
        ELSE IF generation_type = "three_view" THEN (IF tv.found THEN in_three_view ELSE c)
        ELSE IF generation_type = "headshot" THEN (IF hs.found THEN in_headshot ELSE c)
        ELSE IF fb.found THEN in_full_body
        ELSE IF tv.found THEN in_three_view
        ELSE IF hs.found THEN in_headshot
        ELSE c

\* select_asset_variant, asset_type == "scene" and "prop"
SelectSceneVariant(s, variant_id) ==
    LET r == SelectVariantInAsset(s.image_asset, variant_id)
    IN  IF r.found THEN [s EXCEPT !.image_asset = r.asset, !.image_url = r.url] ELSE s

\* select_asset_variant, asset_type == "storyboard_frame"
SelectFrameVariant(f, variant_id) ==
    LET rendered == SelectVariantInAsset(f.rendered_image_asset, variant_id)
        sketch == SelectVariantInAsset(f.image_asset, variant_id)
    IN  IF rendered.found
        THEN [f EXCEPT !.rendered_image_asset = rendered.asset,
                       !.rendered_image_url = rendered.url,
                       !.image_url = rendered.url]
        ELSE [f EXCEPT !.image_asset = sketch.asset]

SelectAssetVariant(asset_type, variant_id, generation_type) ==
    /\ character' = IF asset_type = "character"
                    THEN SelectCharacterVariant(character, variant_id, generation_type)
                    ELSE character
    /\ scene' = IF asset_type = "scene" THEN SelectSceneVariant(scene, variant_id)
                ELSE scene
    /\ prop' = IF asset_type = "prop" THEN SelectSceneVariant(prop, variant_id)
               ELSE prop
    /\ frame' = IF asset_type = "storyboard_frame"
                THEN SelectFrameVariant(frame, variant_id) ELSE frame
    /\ last' = Called("select_asset_variant", asset_type, generation_type, 0, <<>>, 0,
                      FALSE, variant_id)
    /\ UNCHANGED <<now, next_id, retention, videoVars, styleVars>>

\* delete_asset_variant, asset_type == "character"
DeleteCharacterVariant(c, variant_id) ==
    LET fb == DeleteVariantInAsset(c.full_body_asset, variant_id)
        tv == DeleteVariantInAsset(c.three_view_asset, variant_id)
        hs == DeleteVariantInAsset(c.headshot_asset, variant_id)
    IN  IF fb.deleted
        THEN [c EXCEPT !.full_body_asset = fb.asset,
                       !.image_url = SelectedUrl(fb.asset)]
        ELSE IF tv.deleted
        THEN [c EXCEPT !.three_view_asset = tv.asset,
                       !.three_view_image_url = SelectedUrl(tv.asset)]
        ELSE IF hs.deleted
        THEN [c EXCEPT !.headshot_asset = hs.asset,
                       !.headshot_image_url = SelectedUrl(hs.asset)]
        ELSE c

\* delete_asset_variant, asset_type == "scene" and "prop"
DeleteSceneVariant(s, variant_id) ==
    LET r == DeleteVariantInAsset(s.image_asset, variant_id)
    IN  IF r.deleted
        THEN [s EXCEPT !.image_asset = r.asset, !.image_url = SelectedUrl(r.asset)]
        ELSE s

\* delete_asset_variant, asset_type == "storyboard_frame"
DeleteFrameVariant(f, variant_id) ==
    LET r == DeleteVariantInAsset(f.rendered_image_asset, variant_id)
    IN  IF r.deleted
        THEN [f EXCEPT !.rendered_image_asset = r.asset,
                       !.rendered_image_url = SelectedUrl(r.asset),
                       !.image_url = SelectedUrl(r.asset)]
        ELSE f

DeleteAssetVariant(asset_type, variant_id) ==
    /\ character' = IF asset_type = "character"
                    THEN DeleteCharacterVariant(character, variant_id) ELSE character
    /\ scene' = IF asset_type = "scene" THEN DeleteSceneVariant(scene, variant_id)
                ELSE scene
    /\ prop' = IF asset_type = "prop" THEN DeleteSceneVariant(prop, variant_id)
               ELSE prop
    /\ frame' = IF asset_type = "storyboard_frame"
                THEN DeleteFrameVariant(frame, variant_id) ELSE frame
    /\ last' = Called("delete_asset_variant", asset_type, "none", 0, <<>>, 0,
                      FALSE, variant_id)
    /\ UNCHANGED <<now, next_id, retention, videoVars, styleVars>>

\* toggle_variant_favorite, asset_type == "character"
FavoriteCharacterVariant(c, variant_id, is_favorited, generation_type) ==
    LET fb == SetVariantFavorite(c.full_body_asset, variant_id, is_favorited)
        tv == SetVariantFavorite(c.three_view_asset, variant_id, is_favorited)
        hs == SetVariantFavorite(c.headshot_asset, variant_id, is_favorited)
        in_full_body == [entity |-> [c EXCEPT !.full_body_asset = fb.asset], found |-> TRUE]
        in_three_view == [entity |-> [c EXCEPT !.three_view_asset = tv.asset], found |-> TRUE]
        in_headshot == [entity |-> [c EXCEPT !.headshot_asset = hs.asset], found |-> TRUE]
        nowhere == [entity |-> c, found |-> FALSE]
    IN  IF generation_type = "full_body" THEN (IF fb.found THEN in_full_body ELSE nowhere)
        ELSE IF generation_type = "three_view" THEN (IF tv.found THEN in_three_view ELSE nowhere)
        ELSE IF generation_type = "headshot" THEN (IF hs.found THEN in_headshot ELSE nowhere)
        ELSE IF fb.found THEN in_full_body
        ELSE IF tv.found THEN in_three_view
        ELSE IF hs.found THEN in_headshot
        ELSE nowhere

\* toggle_variant_favorite, asset_type == "scene" and "prop"
FavoriteSceneVariant(s, variant_id, is_favorited) ==
    LET r == SetVariantFavorite(s.image_asset, variant_id, is_favorited)
    IN  [entity |-> [s EXCEPT !.image_asset = r.asset], found |-> r.found]

\* toggle_variant_favorite, asset_type == "storyboard_frame"
FavoriteFrameVariant(f, variant_id, is_favorited) ==
    LET rendered == SetVariantFavorite(f.rendered_image_asset, variant_id, is_favorited)
        sketch == SetVariantFavorite(f.image_asset, variant_id, is_favorited)
    IN  IF rendered.found
        THEN [entity |-> [f EXCEPT !.rendered_image_asset = rendered.asset], found |-> TRUE]
        ELSE [entity |-> [f EXCEPT !.image_asset = sketch.asset], found |-> sketch.found]

\* toggle_variant_favorite: raises ValueError when the variant is not found
ToggleVariantFavorite(asset_type, variant_id, is_favorited, generation_type) ==
    LET c == FavoriteCharacterVariant(character, variant_id, is_favorited, generation_type)
        s == FavoriteSceneVariant(scene, variant_id, is_favorited)
        p == FavoriteSceneVariant(prop, variant_id, is_favorited)
        f == FavoriteFrameVariant(frame, variant_id, is_favorited)
        found == IF asset_type = "character" THEN c.found
                 ELSE IF asset_type = "scene" THEN s.found
                 ELSE IF asset_type = "prop" THEN p.found
                 ELSE f.found
    IN  /\ character' = IF asset_type = "character" THEN c.entity ELSE character
        /\ scene' = IF asset_type = "scene" THEN s.entity ELSE scene
        /\ prop' = IF asset_type = "prop" THEN p.entity ELSE prop
        /\ frame' = IF asset_type = "storyboard_frame" THEN f.entity ELSE frame
        /\ last' = Called("toggle_variant_favorite", asset_type, generation_type, 0, <<>>,
                          0, ~found, variant_id)
        /\ UNCHANGED <<now, next_id, retention, videoVars, styleVars>>

\* toggle_asset_lock: locked = not locked
ToggleAssetLock(asset_type) ==
    /\ character' = IF asset_type = "character"
                    THEN [character EXCEPT !.locked = ~@] ELSE character
    /\ scene' = IF asset_type = "scene" THEN [scene EXCEPT !.locked = ~@] ELSE scene
    /\ prop' = IF asset_type = "prop" THEN [prop EXCEPT !.locked = ~@] ELSE prop
    /\ last' = Called("toggle_asset_lock", asset_type, "none", 0, <<>>, 0, FALSE, None)
    /\ UNCHANGED <<now, next_id, frame, retention, videoVars, styleVars>>

\* update_project_style: the legacy style fields; updated_at reads the clock
UpdateProjectStyle(style_preset, style_prompt) ==
    /\ script' = [script EXCEPT !.style_preset = style_preset,
                                !.style_prompt = style_prompt]
    /\ now' = now + 1
    /\ last' = Called("update_project_style", "none", "none", 0, <<>>, 0, FALSE, None)
    /\ UNCHANGED <<next_id, character, scene, prop, frame, retention, videoVars,
                   generation>>

\* save_art_direction: a new ArtDirection with the style_config passed
SaveArtDirection(style_config) ==
    /\ script' = [script EXCEPT !.art_direction = <<style_config>>]
    /\ now' = now + 1
    /\ last' = Called("save_art_direction", "none", "none", 0, <<>>, 0, FALSE, None)
    /\ UNCHANGED <<next_id, character, scene, prop, frame, retention, videoVars,
                   generation>>

(***************************************************************************)
(* Video tasks (pipeline.py 498-557, 789-1032).  A url is a record: a      *)
(* local path below the output directory, an http url, or the snapshot     *)
(* copy made for a task.                                                   *)
(***************************************************************************)
\* asset_id of a task that belongs to a storyboard frame
NoAsset == "none"

LocalUrl(ref) == [kind |-> "local", ref |-> ref]

HttpUrl(ref) == [kind |-> "http", ref |-> ref]

\* models.py VideoTask: status = "pending", video_url = None
VideoTask(id, asset_id, image_url, created_at) ==
    [id |-> id, asset_id |-> asset_id, image_url |-> image_url,
     status |-> "pending", video_url |-> None, created_at |-> created_at]

\* snapshot_url: the copy output/video_inputs/<task_id> when image_url is
\* not an http url, the file exists and shutil.copy2 returns; image_url
\* itself otherwise
Snapshot(image_url, task_id, exists, copied) ==
    IF image_url.kind # "http" /\ exists /\ copied
    THEN [kind |-> "snapshot", ref |-> task_id]
    ELSE image_url

\* the image a video of the asset starts from
AssetImageUrl(asset_type) ==
    IF asset_type = "character"
    THEN (IF character.full_body_image_url # None
          THEN character.full_body_image_url ELSE character.image_url)
    ELSE IF asset_type = "scene" THEN scene.image_url
    ELSE prop.image_url

\* the request now served: after its change to the project it saves
Serving(op, task_id) ==
    [pc |-> "acquire", op |-> op, task |-> task_id, write_failed |-> FALSE,
     raised |-> FALSE]

\* the request raised before it changed anything
Refused(op) ==
    [pc |-> "idle", op |-> op, task |-> None, write_failed |-> FALSE, raised |-> TRUE]

\* create_asset_video_task up to its _save_data: the task object joins
\* script.video_tasks and the asset's video_assets
CreateAssetVideoTask(asset_type, exists, copied) ==
    /\ handler.pc = "idle"
    /\ IF AssetImageUrl(asset_type) = None
       THEN /\ handler' = Refused("create_asset_video_task")
            /\ UNCHANGED <<heap, video_tasks, video_assets, now, next_id>>
       ELSE /\ heap' = Append(heap,
                           VideoTask(next_id, asset_type,
                                     Snapshot(LocalUrl(AssetImageUrl(asset_type)),
                                              next_id, exists, copied),
                                     now))
            /\ video_tasks' = Append(video_tasks, Len(heap) + 1)
            /\ video_assets' =
                   [video_assets EXCEPT ![asset_type] = Append(@, Len(heap) + 1)]
            /\ now' = now + 1
            /\ next_id' = next_id + 1
            /\ handler' = Serving("create_asset_video_task", next_id)
    /\ UNCHANGED <<character, scene, prop, frame, last, retention, threads, save_lock, styleVars>>

\* create_video_task up to its _save_data: a task for a storyboard frame
\* from the image_url of the request
CreateVideoTask(image_url, exists, copied) ==
    /\ handler.pc = "idle"
    /\ heap' = Append(heap, VideoTask(next_id, NoAsset,
                                      Snapshot(image_url, next_id, exists, copied), now))
    /\ video_tasks' = Append(video_tasks, Len(heap) + 1)
    /\ now' = now + 1
    /\ next_id' = next_id + 1
    /\ handler' = Serving("create_video_task", next_id)
    /\ UNCHANGED <<character, scene, prop, frame, last, retention, video_assets,
                   threads, save_lock, styleVars>>

\* [v for v in list if v.id != video_id]
WithoutVideo(list, video_id) ==
    LET keep == {i \in 1..Len(list) : heap[list[i]].id # video_id}
        RECURSIVE Kept(_)
        Kept(i) == IF i > Len(list) THEN <<>>
                   ELSE (IF i \in keep THEN <<list[i]>> ELSE <<>>) \o Kept(i + 1)
    IN  Kept(1)

\* delete_asset_video up to its _save_data
DeleteAssetVideo(asset_type, video_id) ==
    /\ handler.pc = "idle"
    /\ video_assets' =
           [video_assets EXCEPT ![asset_type] = WithoutVideo(@, video_id)]
    /\ video_tasks' = WithoutVideo(video_tasks, video_id)
    /\ handler' = Serving("delete_asset_video", video_id)
    /\ UNCHANGED <<now, next_id, character, scene, prop, frame, last, retention,
                   heap, threads, save_lock, styleVars>>

\* _save_data of the request: with self._save_lock
RequestSaveAcquire ==
    /\ handler.pc = "acquire"
    /\ ~save_lock
    /\ save_lock' = TRUE
    /\ handler' = [handler EXCEPT !.pc = "write"]
    /\ UNCHANGED <<now, next_id, character, scene, prop, frame, last, retention,
                   heap, video_tasks, video_assets, threads, styleVars>>

\* the mutant of the write below: the lock stays held when the write raises
RequestSaveWriteHolding(written) ==
    /\ handler.pc = "write"
    /\ save_lock' = ~written
    /\ handler' = [handler EXCEPT !.pc = "idle", !.write_failed = ~written]
    /\ threads' =
           IF handler.op \in {"create_video_task", "create_asset_video_task"}
           THEN Append(threads, [id |-> handler.task, ref |-> 0, pc |-> "scheduled",
                                       elapsed |-> 0, result |-> "none"])
           ELSE threads
    /\ UNCHANGED <<now, next_id, character, scene, prop, frame, last, retention,
                   heap, video_tasks, video_assets, styleVars>>

\* the file write of the request's _save_data: an exception is logged, the
\* with block releases the lock, the handler returns to the endpoint, which
\* hands process_video_task to the background tasks after a creation
RequestSaveWrite(written) ==
    /\ handler.pc = "write"
    /\ save_lock' = FALSE
    /\ handler' = [handler EXCEPT !.pc = "idle", !.write_failed = ~written]
    /\ threads' =
           IF handler.op \in {"create_video_task", "create_asset_video_task"}
           THEN Append(threads, [id |-> handler.task, ref |-> 0, pc |-> "scheduled",
                                       elapsed |-> 0, result |-> "none"])
           ELSE threads
    /\ UNCHANGED <<now, next_id, character, scene, prop, frame, last, retention,
                   heap, video_tasks, video_assets, styleVars>>

\* next((t for t in script.video_tasks if t.id == task_id), None)
FindTask(task_id) ==
    LET at == {i \in 1..Len(video_tasks) : heap[video_tasks[i]].id = task_id}
    IN  IF at = {} THEN 0
        ELSE video_tasks[CHOOSE i \in at : \A j \in at : i <= j]

\* select_video_for_frame: ValueError when no task of script.video_tasks has
\* the id, else the frame's selected_video_id and video_url; then _save_data
SelectVideoForFrame(video_id) ==
    /\ handler.pc = "idle"
    /\ IF FindTask(video_id) = 0
       THEN /\ handler' = Refused("select_video_for_frame")
            /\ UNCHANGED frame
       ELSE /\ frame' = [frame EXCEPT !.selected_video_id = video_id,
                                      !.video_url = heap[FindTask(video_id)].video_url]
            /\ handler' = Serving("select_video_for_frame", video_id)
    /\ UNCHANGED <<now, next_id, character, scene, prop, last, retention,
                   heap, video_tasks, video_assets, threads, save_lock, styleVars>>

\* process_video_task up to its first _save_data: return when the task is
\* not in script.video_tasks, else status = "processing"
ProcessVideoTaskStart(i) ==
    /\ threads[i].pc = "scheduled"
    /\ IF FindTask(threads[i].id) = 0
       THEN /\ threads' = [threads EXCEPT ![i].pc = "done"]
            /\ UNCHANGED heap
       ELSE /\ heap' = [heap EXCEPT ![FindTask(threads[i].id)].status = "processing"]
            /\ threads' = [threads EXCEPT ![i].ref = FindTask(threads[i].id),
                                          ![i].pc = "acquire1"]
    /\ UNCHANGED <<now, next_id, character, scene, prop, frame, last, retention,
                   video_tasks, video_assets, handler, save_lock, styleVars>>

\* _save_data of a background call: with self._save_lock
TaskSaveAcquire(i) ==
    /\ threads[i].pc \in {"acquire1", "acquire2"}
    /\ ~save_lock
    /\ save_lock' = TRUE
    /\ threads' = [threads EXCEPT
                     ![i].pc = IF @ = "acquire1" THEN "write1" ELSE "write2"]
    /\ UNCHANGED <<now, next_id, character, scene, prop, frame, last, retention,
                   heap, video_tasks, video_assets, handler, styleVars>>

\* the file write of a background call's _save_data, returning or logging
\* its exception; the with block releases the lock
TaskSaveWrite(i) ==
    /\ threads[i].pc \in {"write1", "write2"}
    /\ save_lock' = FALSE
    /\ threads' = [threads EXCEPT
                     ![i].pc = IF @ = "write1" THEN "generating" ELSE "done"]
    /\ UNCHANGED <<now, next_id, character, scene, prop, frame, last, retention,
                   heap, video_tasks, video_assets, handler, styleVars>>

\* _sync_asset_video_task: the asset's record with the task's id is replaced
\* by the task object, or the task object is appended
SyncAssetVideoTask(assets, ref) ==
    LET list == assets[heap[ref].asset_id]
        at == {i \in 1..Len(list) : heap[list[i]].id = heap[ref].id}
    IN  IF at # {}
        THEN [assets EXCEPT ![heap[ref].asset_id][CHOOSE i \in at : \A j \in at : i <= j]
                                = ref]
        ELSE [assets EXCEPT ![heap[ref].asset_id] = Append(@, ref)]

\* process_video_task from the backend's answer to its last _save_data:
\* video_url and "completed", or "failed" in the except clause; then the
\* sync of an asset's task.  The polling loop's local elapsed ends with the
\* backend call.
ProcessVideoTaskFinish(i, generated) ==
    /\ threads[i].pc = "generating"
    /\ heap' = IF generated
               THEN [heap EXCEPT ![threads[i].ref].video_url = threads[i].id,
                                 ![threads[i].ref].status = "completed"]
               ELSE [heap EXCEPT ![threads[i].ref].status = "failed"]
    /\ video_assets' = IF heap[threads[i].ref].asset_id # NoAsset
                       THEN SyncAssetVideoTask(video_assets, threads[i].ref)
                       ELSE video_assets
    /\ threads' = [threads EXCEPT ![i].pc = "acquire2", ![i].elapsed = 0]
    /\ UNCHANGED <<now, next_id, character, scene, prop, frame, last, retention,
                   video_tasks, handler, save_lock, styleVars>>

\* what one poll of the backend task can answer: a status code other than
\* 200, a task_status, SUCCEEDED without a video_url, or requests.get raising
PollResponses ==
    {"http_error", "PENDING", "RUNNING", "SUCCEEDED", "no_video_url", "FAILED",
     "CANCELED", "UNKNOWN", "request_error"}

\* _download_temp_image: a path under output/ is returned at once; any other
\* url is fetched with requests.get(url, stream=True), which has no timeout
\* and returns when the server answers.  The path, or None after a logged
\* exception, goes on to model.generate.
DownloadTempImage(i, http) ==
    /\ threads[i].pc = "generating"
    /\ threads[i].result = "none"
    /\ http = (heap[threads[i].ref].image_url.kind = "http")
    /\ threads' = [threads EXCEPT ![i].result = "image"]
    /\ UNCHANGED <<now, next_id, character, scene, prop, frame, last, retention,
                   heap, video_tasks, video_assets, handler, save_lock, styleVars>>

\* _generate_wan_i2v_http, step 1: the task is created, or RuntimeError
GenerateWanI2vHttpCreate(i, created) ==
    /\ threads[i].pc = "generating"
    /\ threads[i].result = "image"
    /\ threads' = [threads EXCEPT
                     ![i].result = IF created THEN "polling"
                                   ELSE "task creation failed"]
    /\ UNCHANGED <<now, next_id, character, scene, prop, frame, last, retention,
                   heap, video_tasks, video_assets, handler, save_lock, styleVars>>

\* one turn of the polling loop: sleep, elapsed += poll_interval, one GET;
\* the result is the video url or the message of the exception raised
GenerateWanI2vHttpPoll(i, response) ==
    /\ threads[i].pc = "generating"
    /\ threads[i].result = "polling"
    /\ threads[i].elapsed < max_wait_time
    /\ threads' = [threads EXCEPT
                     ![i].elapsed = @ + poll_interval,
                     ![i].result =
                         CASE response = "SUCCEEDED" -> "video_url"
                           [] response = "no_video_url" -> "no video_url"
                           [] response = "FAILED" -> "task failed"
                           [] response \in {"CANCELED", "UNKNOWN"} -> "task canceled"
                           [] response = "request_error" -> "request error"
                           [] OTHER -> "polling"]
    /\ UNCHANGED <<now, next_id, character, scene, prop, frame, last, retention,
                   heap, video_tasks, video_assets, handler, save_lock, styleVars>>

\* the loop's exit when elapsed reached max_wait_time: RuntimeError
GenerateWanI2vHttpTimeout(i) ==
    /\ threads[i].pc = "generating"
    /\ threads[i].result = "polling"
    /\ threads[i].elapsed >= max_wait_time
    /\ threads' = [threads EXCEPT ![i].result = "task timed out"]
    /\ UNCHANGED <<now, next_id, character, scene, prop, frame, last, retention,
                   heap, video_tasks, video_assets, handler, save_lock, styleVars>>

(***************************************************************************)
(* SpecScene: one scene under generation, selection, deletion and          *)
(* favoriting.  The backend's answers to the calls of one request are  *)
(* the booleans of outcomes; at most MaxIds variants are ever created.     *)
(***************************************************************************)
Outcomes(n) == [1..n -> BOOLEAN]

\* the variant ids a request may name: those of the pool, and one no pool holds
Candidates(image_asset) == Ids(image_asset.variants) \cup {next_id}

SceneTypes == {"scene", "prop"}

GenerateSceneOrProp(asset_type) ==
    \E batch_size \in 1..MaxBatch :
        \E outcomes \in Outcomes(batch_size) :
            /\ next_id + batch_size - 1 <= MaxIds
            /\ GenerateAsset(asset_type, "none", batch_size, outcomes)

SelectSceneOrProp(asset_type) ==
    \E variant_id \in Candidates(Pool(asset_type, "none")) :
        SelectAssetVariant(asset_type, variant_id, "none")

DeleteSceneOrProp(asset_type) ==
    \E variant_id \in Candidates(Pool(asset_type, "none")) :
        DeleteAssetVariant(asset_type, variant_id)

FavoriteSceneOrProp(asset_type) ==
    \E variant_id \in Candidates(Pool(asset_type, "none")), is_favorited \in BOOLEAN :
        ToggleVariantFavorite(asset_type, variant_id, is_favorited, "none")

NextScene ==
    \/ GenerateSceneOrProp("scene")
    \/ SelectSceneOrProp("scene")
    \/ DeleteSceneOrProp("scene")
    \/ FavoriteSceneOrProp("scene")

SpecScene == Init /\ [][NextScene]_vars

(***************************************************************************)
(* SpecCharRetention: the character's full-body pool filled past           *)
(* MAX_VARIANTS_PER_ASSET by full_body generations, with selection and     *)
(* favoriting of the variants it holds.                                    *)
(***************************************************************************)
NumFavorited(image_asset) == Len(Favorited(image_asset.variants))

\* every backend call of the request succeeds
AllSucceed(n) == [j \in 1..n |-> TRUE]

\* the ids at the two ends of a pool: the first and the last of variants
EndIds(image_asset) ==
    IF image_asset.variants = <<>> THEN {}
    ELSE {image_asset.variants[1].id,
          image_asset.variants[Len(image_asset.variants)].id}

GenerateFullBody ==
    \E batch_size \in 1..MaxBatch :
        /\ next_id + batch_size - 1 <= MaxRetentionIds
        /\ GenerateAsset("character", "full_body", batch_size, AllSucceed(batch_size))

SelectFullBody ==
    \E variant_id \in EndIds(character.full_body_asset) :
        SelectAssetVariant("character", variant_id, "full_body")

FavoriteFullBody ==
    \E variant_id \in EndIds(character.full_body_asset) :
        /\ NumFavorited(character.full_body_asset) < MaxFavorites
        /\ ToggleVariantFavorite("character", variant_id, TRUE, "full_body")

NextCharRetention ==
    \/ GenerateFullBody
    \/ SelectFullBody
    \/ FavoriteFullBody

SpecCharRetention == Init /\ [][NextCharRetention]_vars

(***************************************************************************)
(* SpecSceneRetention: the scene's and the prop's pools filled by          *)
(* generations until MaxRetentionIds variants exist.                       *)
(***************************************************************************)
FillSceneOrProp(asset_type) ==
    \E batch_size \in 1..MaxBatch :
        /\ next_id + batch_size - 1 <= MaxRetentionIds
        /\ GenerateAsset(asset_type, "none", batch_size, AllSucceed(batch_size))

NextSceneRetention ==
    \/ FillSceneOrProp("scene")
    \/ FillSceneOrProp("prop")

SpecSceneRetention == Init /\ [][NextSceneRetention]_vars

(***************************************************************************)
(* SpecFrame: one storyboard frame under rendering, selection, deletion    *)
(* and favoriting of its rendered variants.                                *)
(***************************************************************************)
RenderFrame ==
    \E batch_size \in 1..MaxBatch :
        \E outcomes \in Outcomes(batch_size) :
            /\ next_id + batch_size - 1 <= MaxIds
            /\ GenerateStoryboardRender(batch_size, outcomes)

SelectFrame ==
    \E variant_id \in Candidates(frame.rendered_image_asset) :
        SelectAssetVariant("storyboard_frame", variant_id, "none")

DeleteFrame ==
    \E variant_id \in Candidates(frame.rendered_image_asset) :
        DeleteAssetVariant("storyboard_frame", variant_id)

FavoriteFrame ==
    \E variant_id \in Candidates(frame.rendered_image_asset), is_favorited \in BOOLEAN :
        ToggleVariantFavorite("storyboard_frame", variant_id, is_favorited, "none")

NextFrame ==
    \/ RenderFrame
    \/ SelectFrame
    \/ DeleteFrame
    \/ FavoriteFrame

SpecFrame == Init /\ [][NextFrame]_vars

(***************************************************************************)
(* SpecCharacter: one character under generation of every generation_type, *)
(* selection and deletion in its three stage pools.                        *)
(***************************************************************************)
CharacterCandidates ==
    Candidates(character.full_body_asset) \cup Candidates(character.three_view_asset)
        \cup Candidates(character.headshot_asset)

BatchSizes(generation_type) ==
    IF generation_type = "all" THEN 1..MaxAllBatch ELSE 1..MaxBatch

GenerateCharacterAsset ==
    \E generation_type \in GenerationTypes :
        \E batch_size \in BatchSizes(generation_type) :
            \E outcomes \in Outcomes(NumCalls("character", generation_type, batch_size)) :
                /\ next_id + NumCalls("character", generation_type, batch_size) - 1
                       <= MaxCharIds
                /\ now + NumCalls("character", generation_type, batch_size) + 3
                       <= MaxClock
                /\ GenerateAsset("character", generation_type, batch_size, outcomes)

SelectCharacter ==
    \E variant_id \in CharacterCandidates, generation_type \in GenerationTypes :
        SelectAssetVariant("character", variant_id, generation_type)

DeleteCharacter ==
    \E variant_id \in CharacterCandidates :
        DeleteAssetVariant("character", variant_id)

NextCharacter ==
    \/ GenerateCharacterAsset
    \/ SelectCharacter
    \/ DeleteCharacter

SpecCharacter == Init /\ [][NextCharacter]_vars

(***************************************************************************)
(* SpecCharSource: one character whose derived pools can also receive      *)
(* user-uploaded source images, under generation and deletion.  The upload *)
(* handler is not part of the sources at hand; what is modelled is its     *)
(* documented effect, a pool variant flagged is_uploaded_source, which     *)
(* generate_character reads at assets.py 229, 239 and 251.                 *)
(***************************************************************************)
UploadedVariant(id, created_at) ==
    [ImageVariant(id, created_at) EXCEPT !.is_uploaded_source = TRUE]

UploadSource(generation_type) ==
    /\ next_id <= MaxUploadIds
    /\ now + 1 <= MaxClock
    /\ character' =
           IF generation_type = "three_view"
           THEN [character EXCEPT !.three_view_asset.variants =
                                      <<UploadedVariant(next_id, now)>> \o @]
           ELSE [character EXCEPT !.headshot_asset.variants =
                                      <<UploadedVariant(next_id, now)>> \o @]
    /\ next_id' = next_id + 1
    /\ now' = now + 1
    /\ last' = Called("upload_source", "character", generation_type, 0, <<>>, 0,
                      FALSE, next_id)
    /\ UNCHANGED <<scene, prop, frame, retention, videoVars, styleVars>>

UploadCharacterSource ==
    \E generation_type \in {"three_view", "headshot"} : UploadSource(generation_type)

NextCharSource ==
    \/ UploadCharacterSource
    \/ GenerateCharacterAsset
    \/ DeleteCharacter

SpecCharSource == Init /\ [][NextCharSource]_vars

(***************************************************************************)
(* SpecVideo: the video tasks of one scene and of a storyboard frame.  The *)
(* endpoints run one at a time on the event loop; every creation hands one *)
(* process_video_task call to a background thread, which runs beside the   *)
(* requests and the other background calls.  A request on the scene's pool *)
(* runs to its end, and so where no other thread holds the lock.           *)
(***************************************************************************)
\* the image_url of a create_video_task request
RequestUrls == {LocalUrl(1), HttpUrl(1)}

GenerateSource ==
    /\ handler.pc = "idle"
    /\ ~save_lock
    /\ next_id <= MaxSourceIds
    /\ GenerateAsset("scene", "none", 1, <<TRUE>>)

CreateSceneVideo ==
    /\ Len(heap) < MaxTasks
    /\ \E copied \in BOOLEAN : CreateAssetVideoTask("scene", TRUE, copied)

CreateFrameVideo ==
    /\ Len(heap) < MaxTasks
    /\ \E image_url \in RequestUrls : CreateVideoTask(image_url, TRUE, TRUE)

\* the ids of the tasks in the lists of the project
ListedIds ==
    {heap[video_tasks[i]].id : i \in 1..Len(video_tasks)}
        \cup {heap[video_assets["scene"][i]].id : i \in 1..Len(video_assets["scene"])}

DeleteSceneVideo ==
    \E video_id \in ListedIds : DeleteAssetVideo("scene", video_id)

RequestSave ==
    \/ RequestSaveAcquire
    \/ \E written \in BOOLEAN : RequestSaveWrite(written)

ProcessVideoTask ==
    \E i \in 1..Len(threads) :
        \/ ProcessVideoTaskStart(i)
        \/ TaskSaveAcquire(i)
        \/ TaskSaveWrite(i)
        \/ \E generated \in BOOLEAN : ProcessVideoTaskFinish(i, generated)

NextVideo ==
    \/ GenerateSource
    \/ CreateSceneVideo
    \/ CreateFrameVideo
    \/ DeleteSceneVideo
    \/ RequestSave
    \/ ProcessVideoTask

SpecVideo == Init /\ [][NextVideo]_vars

(***************************************************************************)
(* SpecVideoSource: video tasks of a scene whose pool is regenerated,      *)
(* reselected and emptied while the tasks exist.  The snapshot copy can    *)
(* find the image file or not, and succeed or raise.                       *)
(***************************************************************************)
RegenerateSource ==
    /\ handler.pc = "idle"
    /\ ~save_lock
    /\ next_id <= MaxSourceRegenIds
    /\ \E generated \in BOOLEAN : GenerateAsset("scene", "none", 1, <<generated>>)

SelectSource ==
    /\ handler.pc = "idle"
    /\ ~save_lock
    /\ \E variant_id \in Ids(scene.image_asset.variants) :
           SelectAssetVariant("scene", variant_id, "none")

DeleteSource ==
    /\ handler.pc = "idle"
    /\ ~save_lock
    /\ \E variant_id \in Ids(scene.image_asset.variants) :
           DeleteAssetVariant("scene", variant_id)

CreateSourcedVideo ==
    /\ Len(heap) < MaxSourcedTasks
    /\ \/ \E exists \in BOOLEAN, copied \in BOOLEAN :
              CreateAssetVideoTask("scene", exists, copied)
       \/ \E image_url \in RequestUrls, exists \in BOOLEAN, copied \in BOOLEAN :
              CreateVideoTask(image_url, exists, copied)

NextVideoSource ==
    \/ RegenerateSource
    \/ SelectSource
    \/ DeleteSource
    \/ CreateSourcedVideo
    \/ RequestSave
    \/ ProcessVideoTask

SpecVideoSource == Init /\ [][NextVideoSource]_vars

(***************************************************************************)
(* SpecVideoRetry: the tasks of SpecVideo where process_video_task is also *)
(* called for a task that is already in script.video_tasks, as a caller    *)
(* that retries a task does.                                               *)
(***************************************************************************)
ProcessVideoTaskAgain ==
    /\ Len(threads) < MaxCalls
    /\ \E i \in 1..Len(video_tasks) :
           threads' = Append(threads, [id |-> heap[video_tasks[i]].id, ref |-> 0,
                                       pc |-> "scheduled",
                                       elapsed |-> 0, result |-> "none"])
    /\ UNCHANGED <<now, next_id, character, scene, prop, frame, last, retention,
                   heap, video_tasks, video_assets, handler, save_lock, styleVars>>

CreateRetriedVideo ==
    /\ Len(heap) < MaxRetryTasks
    /\ CreateAssetVideoTask("scene", TRUE, TRUE)

NextVideoRetry ==
    \/ GenerateSource
    \/ CreateRetriedVideo
    \/ RequestSave
    \/ ProcessVideoTask
    \/ ProcessVideoTaskAgain

SpecVideoRetry == Init /\ [][NextVideoRetry]_vars

(***************************************************************************)
(* SpecSave: the saves of the requests that create video tasks and of the  *)
(* background calls that process them, all through the one _save_lock.  A  *)
(* thread that is inside the with block runs to its end: the write returns *)
(* or raises, so the write steps are weakly fair.                          *)
(***************************************************************************)
CreateSavedVideo ==
    /\ Len(heap) < MaxSavedTasks
    /\ CreateVideoTask(HttpUrl(1), TRUE, TRUE)

NextSave ==
    \/ CreateSavedVideo
    \/ RequestSave
    \/ ProcessVideoTask

SpecSave ==
    /\ Init
    /\ [][NextSave]_vars
    /\ WF_vars(\E written \in BOOLEAN : RequestSaveWrite(written))
    /\ WF_vars(\E i \in 1..Len(threads) : TaskSaveWrite(i))

(***************************************************************************)
(* SpecLock: a scene and a character that are locked and unlocked between  *)
(* generation requests.                                                    *)
(***************************************************************************)
ToggleLock ==
    \E asset_type \in {"character", "scene"} : ToggleAssetLock(asset_type)

GenerateLockedCharacter ==
    \E generation_type \in {"full_body", "three_view"} :
        \E outcomes \in Outcomes(1) :
            /\ next_id <= MaxLockIds
            /\ now + 4 <= MaxClock
            /\ GenerateAsset("character", generation_type, 1, outcomes)

GenerateLockedScene ==
    \E batch_size \in 1..MaxBatch :
        \E outcomes \in Outcomes(batch_size) :
            /\ next_id + batch_size - 1 <= MaxLockIds
            /\ GenerateAsset("scene", "none", batch_size, outcomes)

NextLock ==
    \/ ToggleLock
    \/ GenerateLockedCharacter
    \/ GenerateLockedScene

SpecLock == Init /\ [][NextLock]_vars

(***************************************************************************)
(* SpecPoll: frame video tasks whose backend call is the polling loop of   *)
(* _generate_wan_i2v_http, requested one after the other: a request is     *)
(* made when the background call of the one before it has returned.  The   *)
(* call runs in a thread of the pool, which goes on running until the call *)
(* returns, so its own steps are weakly fair; the requests it makes with a *)
(* timeout return or raise, and what the backend answers is free.  The     *)
(* image download has no timeout: it returns when the image's server       *)
(* answers, which no step of the program brings about.                     *)
(***************************************************************************)
CreatePolledVideo ==
    /\ Len(heap) < MaxPolledTasks
    /\ \A i \in 1..Len(threads) : threads[i].pc = "done"
    /\ \E image_url \in RequestUrls : CreateVideoTask(image_url, TRUE, TRUE)

SavePolledVideo ==
    \/ RequestSaveAcquire
    \/ RequestSaveWrite(TRUE)

\* the image's server answers the download request of a background call
AnswerImageRequest ==
    \E i \in 1..Len(threads) : DownloadTempImage(i, TRUE)

\* process_video_task with model.generate in its steps: create, poll, and
\* the download of the video
ProcessPolledTask ==
    \E i \in 1..Len(threads) :
        \/ ProcessVideoTaskStart(i)
        \/ TaskSaveAcquire(i)
        \/ TaskSaveWrite(i)
        \/ DownloadTempImage(i, FALSE)
        \/ \E created \in BOOLEAN : GenerateWanI2vHttpCreate(i, created)
        \/ \E response \in PollResponses : GenerateWanI2vHttpPoll(i, response)
        \/ GenerateWanI2vHttpTimeout(i)
        \/ /\ threads[i].result \notin {"none", "image", "polling"}
           /\ \E downloaded \in BOOLEAN :
                  ProcessVideoTaskFinish(i, threads[i].result = "video_url" /\ downloaded)

NextPoll ==
    \/ CreatePolledVideo
    \/ SavePolledVideo
    \/ AnswerImageRequest
    \/ ProcessPolledTask

SpecPoll ==
    /\ Init
    /\ [][NextPoll]_vars
    /\ WF_vars(SavePolledVideo)
    /\ WF_vars(ProcessPolledTask)

(***************************************************************************)
(* SpecFrameVideo: the videos of a storyboard frame, selected for the      *)
(* frame by select_video_for_frame and deleted through the video deletion  *)
(* endpoint, which names an asset of the project and a video id.           *)
(***************************************************************************)
CreateSelectableVideo ==
    /\ Len(heap) < MaxSelectTasks
    /\ CreateVideoTask(HttpUrl(1), TRUE, TRUE)

\* the video ids a request may name: those ever created, and one never created
VideoCandidates == {heap[i].id : i \in 1..Len(heap)} \cup {next_id}

SelectFrameVideo ==
    \E video_id \in VideoCandidates : SelectVideoForFrame(video_id)

DeleteListedVideo ==
    \E video_id \in VideoCandidates : DeleteAssetVideo("scene", video_id)

NextFrameVideo ==
    \/ CreateSelectableVideo
    \/ SelectFrameVideo
    \/ DeleteListedVideo
    \/ RequestSave
    \/ ProcessVideoTask

SpecFrameVideo == Init /\ [][NextFrameVideo]_vars

(***************************************************************************)
(* SpecStyle: a scene generated with every combination of style arguments, *)
(* in a project whose legacy style and Art Direction are set and reset.    *)
(***************************************************************************)
StylePresets == {"", "anime"}

StylePrompts == {"", "ink"}

NegativePrompts == {"", "blur"}

\* dicts that hold any of the two prompt keys, with an empty or a set value
StyleConfigs ==
    UNION {[keys -> {"", "noir"}] : keys \in SUBSET {"positive_prompt", "negative_prompt"}}

StyleRequests ==
    [apply_style : BOOLEAN, style_prompt : StylePrompts, style_preset : StylePresets,
     negative_prompt : NegativePrompts]

SetProjectStyle ==
    \E style_preset \in StylePresets, style_prompt \in StylePrompts :
        /\ now < MaxStyleClock
        /\ UpdateProjectStyle(style_preset, style_prompt)

SetArtDirection ==
    \E style_config \in StyleConfigs :
        /\ now < MaxStyleClock
        /\ SaveArtDirection(style_config)

GenerateStyledScene ==
    \E request \in StyleRequests, outcomes \in Outcomes(1) :
        /\ next_id <= MaxStyleIds
        /\ GenerateAssetStyled("scene", "none", 1, outcomes, request)

NextStyle ==
    \/ SetProjectStyle
    \/ SetArtDirection
    \/ GenerateStyledScene

SpecStyle == Init /\ [][NextStyle]_vars

(***************************************************************************)
(* SpecCleanup: cleanup_old_variants as a function of the pool.  The pool  *)
(* is drawn from a bounded family: any length up to MaxPoolLen, created_at *)
(* running up or down the pool order, rotated by k and folded modulo m     *)
(* (m < length gives equal timestamps), a favorited head, tail or every    *)
(* other position of the pool, with and without a selection.               *)
(***************************************************************************)
CreatedAtPattern(len, dir, m, k, i) ==
    IF dir = "up" THEN ((i - 1 + k) % m) + 1 ELSE ((len - i + k) % m) + 1

\* favorited positions: a head of the pool, a tail of it, every other one
FavoriteMasks(len) ==
    {1..j : j \in 0..len} \cup {j..len : j \in 1..len}
        \cup {{i \in 1..len : i % 2 = 1}}

PoolOf(len, dir, m, k, fav, sel) ==
    [selected_id |-> sel,
     variants |-> [i \in 1..len |->
                     [ImageVariant(i, CreatedAtPattern(len, dir, m, k, i))
                        EXCEPT !.is_favorited = (i \in fav)]]]

CleanupInputs ==
    {ImageAsset} \cup
    UNION {{PoolOf(len, dir, m, k, fav, sel) :
               dir \in {"up", "down"}, m \in {1, 2, len}, fav \in FavoriteMasks(len),
               sel \in {None, len}} :
           len \in 1..MaxPoolLen, k \in 0..(MaxPoolLen - 1)}

InitCleanup ==
    /\ now = 3
    /\ next_id = 1
    /\ character = NewCharacter(1)
    /\ scene = NewScene
    /\ prop = NewScene
    /\ frame = NewFrame(2)
    /\ last = NoCall
    /\ InitVideo
    /\ InitStyle
    /\ \E pool \in CleanupInputs :
          retention = [applied |-> 0, input |-> pool, once |-> pool, twice |-> pool]

\* one call of cleanup_old_variants on the pool the previous call left
ApplyCleanup ==
    /\ retention.applied < 2
    /\ retention' =
          IF retention.applied = 0
          THEN [retention EXCEPT !.applied = 1,
                                 !.once = CleanupOldVariants(retention.input),
                                 !.twice = CleanupOldVariants(retention.input)]
          ELSE [retention EXCEPT !.applied = 2,
                                 !.twice = CleanupOldVariants(retention.once)]
    /\ UNCHANGED <<now, next_id, character, scene, prop, frame, last, videoVars,
                   styleVars>>

NextCleanup == ApplyCleanup

SpecCleanup == InitCleanup /\ [][NextCleanup]_vars

(***************************************************************************)
(*                               Claims                                    *)
(***************************************************************************)
NonFavoritedAt(variants) == {i \in 1..Len(variants) : ~variants[i].is_favorited}

DistinctCreatedAt(variants, at) ==
    \A i, j \in at : i # j => variants[i].created_at # variants[j].created_at

\* the ids of the `excess` variants at positions `at` with the smallest created_at
OldestIds(variants, at, excess) ==
    {variants[i].id : i \in
        {i \in at : Cardinality({j \in at : variants[j].created_at
                                               < variants[i].created_at}) < excess}}

\* selected_id is None or the id of a variant in variants
SelectionInPool(image_asset) ==
    \/ image_asset.selected_id = None
    \/ image_asset.selected_id \in Ids(image_asset.variants)

(* C1: through every sequence of inserts (generation prepends with
   auto-select), selects and deletes on the scene's pool, selected_id is
   None or the id of a variant currently in variants. *)
C1_SelectionInPool == SelectionInPool(scene.image_asset)

\* C1 witness: the selected variant was deleted and the pool re-selected
\* one of the variants that remain
C1_Witness ==
    /\ last.op = "delete_asset_variant"
    /\ last.asset_type = "scene"
    /\ last.variant_id # None
    /\ last.selected_before = last.variant_id
    /\ last.variant_id \notin Ids(scene.image_asset.variants)
    /\ Len(scene.image_asset.variants) >= 2
    /\ scene.image_asset.selected_id \in Ids(scene.image_asset.variants)

(* C2: in every state reached through full-body generations (each insert
   followed by cleanup_old_variants), selects and favorites, the full-body
   pool's selected_id, if set, is the id of a variant still in variants. *)
C2_SelectionSurvivesRetention == SelectionInPool(character.full_body_asset)

\* the pool holds at most MAX_VARIANTS_PER_ASSET non-favorited variants
WithinCap(image_asset) ==
    Len(NonFavorited(image_asset.variants)) <= MAX_VARIANTS_PER_ASSET

(* C5: after any generation call has returned or raised for a character
   stage, a scene or a prop, the affected pool holds at most
   MAX_VARIANTS_PER_ASSET non-favorited variants. *)
C5_GenerationKeepsCap ==
    last.op = "generate_asset" =>
        /\ WithinCap(character.full_body_asset)
        /\ WithinCap(character.three_view_asset)
        /\ WithinCap(character.headshot_asset)
        /\ WithinCap(scene.image_asset)
        /\ WithinCap(prop.image_asset)

(* C6: deleting the selected variant of the scene's pool sets selected_id
   to the newest remaining variant, the head of the newest-first variants,
   and to None when no variant remains. *)
C6_DeleteSelectsNewest ==
    (/\ last.op = "delete_asset_variant"
     /\ last.asset_type = "scene"
     /\ last.variant_id # None
     /\ last.selected_before = last.variant_id)
    => scene.image_asset.selected_id =
           IF scene.image_asset.variants = <<>> THEN None
           ELSE scene.image_asset.variants[1].id

\* the ids of the variants the last call added to the pool
AddedIds(image_asset) == {id \in Ids(image_asset.variants) : id >= last.first_id}

\* the variant created last is at the head and created_at never increases
\* along variants
NewestFirst(image_asset) ==
    LET variants == image_asset.variants
    IN  /\ \A id \in AddedIds(image_asset) : variants[1].id >= id
        /\ \A i \in 1..(Len(variants) - 1) :
               variants[i].created_at >= variants[i + 1].created_at

AllPools ==
    {character.full_body_asset, character.three_view_asset, character.headshot_asset,
     scene.image_asset, prop.image_asset, frame.rendered_image_asset}

(* C7: after a generation that inserted a variant into a pool (a character
   stage pool, the scene's or prop's pool, the frame's rendered pool) the
   pool's variants are newest-first: the variant created last is at index 0
   and created_at is non-increasing along variants. *)
C7_NewestFirstAfterInsert ==
    last.op \in {"generate_asset", "generate_storyboard_render"} =>
        \A image_asset \in AllPools :
            AddedIds(image_asset) # {} => NewestFirst(image_asset)

\* the backend calls among the first n of the last request that succeeded
Successes(n) == Cardinality({j \in 1..n : last.outcomes[j]})

\* the last request was a generation of one character stage that reached
\* the backend
StageGeneration ==
    /\ last.op = "generate_asset"
    /\ last.asset_type = "character"
    /\ last.generation_type \in {"full_body", "three_view", "headshot"}
    /\ last.calls >= 1

(* C8: a character-stage generation with batch_size N in which k of the N
   backend calls succeed, 1 <= k < N, attempts all N calls, adds exactly k
   new variants to the stage pool, raises nothing to the caller and leaves
   the character's status completed. *)
C8_PartialBatchCompletes ==
    (/\ StageGeneration
     /\ Successes(last.batch_size) >= 1
     /\ Successes(last.batch_size) < last.batch_size)
    => /\ last.calls = last.batch_size
       /\ Cardinality(AddedIds(Pool("character", last.generation_type)))
              = Successes(last.batch_size)
       /\ ~last.raised
       /\ character.status = "completed"

\* C8 witness: a three_view batch of three whose second call failed left two
\* new variants and a completed character
C8_Witness ==
    /\ StageGeneration
    /\ last.generation_type = "three_view"
    /\ last.batch_size = 3
    /\ last.outcomes = <<TRUE, FALSE, TRUE>>
    /\ last.calls = 3
    /\ Cardinality(AddedIds(character.three_view_asset)) = 2
    /\ character.status = "completed"

\* the character generation `call` reached the backend and every call of the
\* stage it ran last failed
ZeroSuccess(call) ==
    /\ call.op = "generate_asset"
    /\ call.asset_type = "character"
    /\ call.calls >= call.batch_size
    /\ \A j \in (call.calls - call.batch_size + 1)..call.calls : ~call.outcomes[j]

\* the pool of the stage that `call` ran last
LastStagePool(c, call) ==
    LET stage == IF call.generation_type # "all" THEN call.generation_type
                 ELSE IF call.calls <= call.batch_size THEN "full_body"
                 ELSE IF call.calls <= 2 * call.batch_size THEN "three_view"
                 ELSE "headshot"
    IN  IF stage = "full_body" THEN c.full_body_asset
        ELSE IF stage = "three_view" THEN c.three_view_asset
        ELSE c.headshot_asset

(* C9: a character-stage generation in which every one of the batch_size
   backend calls fails raises to the caller, sets the character's status to
   failed and leaves the stage pool, variants and selected_id, as it was
   before the call. *)
C9_ZeroSuccessFails ==
    [][ZeroSuccess(last') =>
           /\ last'.raised
           /\ character'.status = "failed"
           /\ LastStagePool(character', last') = LastStagePool(character, last')]_vars

\* C9 witness: a full_body batch of three failed on a pool that held a
\* selected variant
C9_Witness ==
    /\ ZeroSuccess(last)
    /\ last.generation_type = "full_body"
    /\ last.batch_size = 3
    /\ last.raised
    /\ character.status = "failed"
    /\ character.full_body_asset.variants # <<>>
    /\ character.full_body_asset.selected_id # None

(* C10: in a scene or prop generation with batch_size N the failure of one
   backend call does not abort the remaining iterations, and when at least
   one call succeeded the request returns with status completed: it raises
   and sets status failed only when no call succeeded. *)
C10_SceneBatchTolerant ==
    (/\ last.op = "generate_asset"
     /\ last.asset_type \in SceneTypes
     /\ Successes(last.batch_size) >= 1)
    => /\ last.calls = last.batch_size
       /\ ~last.raised
       /\ (IF last.asset_type = "scene" THEN scene ELSE prop).status = "completed"

\* the three pools of the character
CharacterPools ==
    {character.full_body_asset, character.three_view_asset, character.headshot_asset}

(* C11: after a character generation call in which at least one backend call
   of a stage succeeded, the stage pool's selected_id is the id of one of
   the variants that call created, whatever the batch size and whether or
   not the pool had a selection before. *)
C11_SelectionOnCreated ==
    (last.op = "generate_asset" /\ last.asset_type = "character") =>
        \A image_asset \in CharacterPools :
            AddedIds(image_asset) # {} =>
                image_asset.selected_id \in AddedIds(image_asset)

(* C12: after a full_body generation with batch_size 2 on a character whose
   full-body pool was empty, both backend calls succeeding, the pool holds
   two variants and selected_id is the id of the one generated last. *)
C12_NewestOfTwoSelected ==
    (/\ last.op = "generate_asset"
     /\ last.asset_type = "character"
     /\ last.generation_type = "full_body"
     /\ last.batch_size = 2
     /\ last.outcomes = <<TRUE, TRUE>>
     /\ Ids(character.full_body_asset.variants)
            = AddedIds(character.full_body_asset))
    => /\ Len(character.full_body_asset.variants) = 2
       /\ character.full_body_asset.selected_id = last.first_id + 1

(* C13: after any sequence of character generation calls, succeeding or
   failing, is_consistent is true if and only if three_view_updated_at and
   headshot_updated_at are both >= full_body_updated_at. *)
C13_ConsistentIffFresh ==
    (last.op = "generate_asset" /\ last.asset_type = "character") =>
        (character.is_consistent <=>
            /\ character.three_view_updated_at >= character.full_body_updated_at
            /\ character.headshot_updated_at >= character.full_body_updated_at)

\* the request recorded in `call` generated one derived stage of the character
DerivedGeneration(call) ==
    /\ call.op = "generate_asset"
    /\ call.asset_type = "character"
    /\ call.generation_type \in {"three_view", "headshot"}

\* the url of the full-body pool's selected variant, None without one
SelectedFullBodyUrl(c) ==
    LET idx == IndexOfId(c.full_body_asset.variants, c.full_body_asset.selected_id, 1)
    IN  IF c.full_body_asset.selected_id # None /\ idx # 0
        THEN c.full_body_asset.variants[idx].url
        ELSE None

\* the reference in the order: selected full-body variant, uploaded source
\* of the other derived pool, uploaded source of the stage's own pool
OrderedReference(c, generation_type) ==
    LET other == UploadedSourceUrl(IF generation_type = "three_view"
                                   THEN c.headshot_asset ELSE c.three_view_asset)
        own == UploadedSourceUrl(IF generation_type = "three_view"
                                 THEN c.three_view_asset ELSE c.headshot_asset)
    IN  IF SelectedFullBodyUrl(c) # None THEN SelectedFullBodyUrl(c)
        ELSE IF other # None THEN other
        ELSE own

(* C14: a three_view or headshot generation takes as reference the
   full-body pool's selected variant, else an is_uploaded_source variant of
   the other derived pool, else an is_uploaded_source variant of its own
   pool; when that order yields a reference (as for a character with no
   full-body variants and one uploaded three-view variant generating a
   headshot) the generation reaches the backend with it. *)
C14_ReferenceOrder ==
    [][DerivedGeneration(last') =>
           /\ ReferenceUrl(character, last'.generation_type)
                  = OrderedReference(character, last'.generation_type)
           /\ OrderedReference(character, last'.generation_type) # None
                  => last'.calls >= 1]_vars

\* a variant flagged is_uploaded_source is in one of the derived pools
HasUploadedSource(c) ==
    \/ UploadedSourceUrl(c.three_view_asset) # None
    \/ UploadedSourceUrl(c.headshot_asset) # None

(* C15: a three_view or headshot generation for a character with no
   full-body variant (also when they were all deleted) and no
   is_uploaded_source variant in either derived pool raises before any
   backend call and adds no variant to any pool. *)
C15_NoReferenceFails ==
    (/\ DerivedGeneration(last)
     /\ character.full_body_asset.variants = <<>>
     /\ ~HasUploadedSource(character))
    => /\ last.raised
       /\ last.calls = 0
       /\ \A image_asset \in CharacterPools : AddedIds(image_asset) = {}

\* the status changes a VideoTask may make
StatusOrder ==
    {<<"pending", "processing">>, <<"processing", "completed">>,
     <<"processing", "failed">>}

(* C16: the status of every VideoTask changes only from pending to
   processing and from processing to completed or failed; a completed or
   failed task keeps its status under every operation, another
   process_video_task call on it included. *)
C16_StatusOrder ==
    [][\A r \in 1..Len(heap) :
           \/ heap'[r].status = heap[r].status
           \/ <<heap[r].status, heap'[r].status>> \in StatusOrder]_vars

\* the objects the list of references `list` holds under the id `id`
RecordsOf(hp, list, id) == {list[i] : i \in {j \in 1..Len(list) : hp[list[j]].id = id}}

\* script.video_tasks and the asset's video_assets each hold a record of
\* the task `id`, and the records carry one status and one video_url
InSync(hp, tasks, assets, id) ==
    /\ RecordsOf(hp, tasks, id) # {}
    /\ RecordsOf(hp, assets, id) # {}
    /\ \A p \in RecordsOf(hp, tasks, id), q \in RecordsOf(hp, assets, id) :
           /\ hp[p].status = hp[q].status
           /\ hp[p].video_url = hp[q].video_url

(* C17: after each status change of a task linked to an asset the record
   with the task's id in the project's video_tasks and the record with that
   id in the asset's video_assets carry the same status and video_url. *)
C17_ListsInSync ==
    [][\A r \in 1..Len(heap) :
           (heap[r].asset_id # NoAsset /\ heap'[r].status # heap[r].status)
           => InSync(heap', video_tasks', video_assets'[heap[r].asset_id],
                     heap[r].id)]_vars

(* C18: a video task is created with a snapshot copy as its image_url, not
   the location of the source image, and no later operation (selecting,
   deleting or regenerating the source variant, processing the task)
   changes the image_url of a task. *)
C18_SnapshotRecorded ==
    [][\A r \in 1..Len(heap') :
           IF r > Len(heap)
           THEN heap'[r].image_url.kind = "snapshot"
           ELSE heap'[r].image_url = heap[r].image_url]_vars

\* the threads inside the file-write section of _save_data
Writers ==
    {i \in 1..Len(threads) : threads[i].pc \in {"write1", "write2"}}
        \cup (IF handler.pc = "write" THEN {0} ELSE {})

\* the lock is held exactly while one thread is in the write section
OneWriter ==
    /\ Cardinality(Writers) <= 1
    /\ save_lock <=> Writers # {}

(* C19: under every interleaving of the requests and the background video
   tasks at most one thread is in the file-write section of _save_data, and
   the lock is released when the write returns and when it raises, so a
   held lock always becomes free again. *)
C19_SaveLock == []OneWriter /\ (save_lock ~> ~save_lock)

\* C19 witness: the write of the last request raised, the lock was released
\* and a background call now holds it while another waits for it
C19_Witness ==
    /\ handler.pc = "idle"
    /\ handler.write_failed
    /\ \E i, j \in 1..Len(threads) :
           /\ threads[i].pc \in {"write1", "write2"}
           /\ threads[j].pc \in {"acquire1", "acquire2"}

(* C20: when the file write of _save_data fails in a request that changed
   the project, the request raises to its caller, and the change stays in
   memory: the task a creation added is still in script.video_tasks. *)
C20_WriteFailureSurfaced ==
    (handler.pc = "idle" /\ handler.write_failed)
    => /\ handler.raised
       /\ handler.op \in {"create_video_task", "create_asset_video_task"}
              => FindTask(handler.task) # 0

\* the entity a request on asset_type addresses
Entity(asset_type) ==
    IF asset_type = "character" THEN character
    ELSE IF asset_type = "scene" THEN scene
    ELSE prop

\* the ids of all variants in the pools of an entity
EntityIds(asset_type) ==
    IF asset_type = "character"
    THEN Ids(character.full_body_asset.variants)
             \cup Ids(character.three_view_asset.variants)
             \cup Ids(character.headshot_asset.variants)
    ELSE Ids(Entity(asset_type).image_asset.variants)

(* C21: a generation request against an asset whose locked flag is true is
   rejected: it raises, makes no backend call and adds no variant to any
   pool of the asset. *)
C21_LockedRejected ==
    [][\A asset_type \in {"character", "scene"} :
           (/\ last'.op = "generate_asset"
            /\ last'.asset_type = asset_type
            /\ Entity(asset_type).locked)
           => /\ last'.raised
              /\ last'.calls = 0
              /\ EntityIds(asset_type)' = EntityIds(asset_type)]_vars

(* C22: select_asset_variant and delete_asset_variant called with a variant
   id that is in none of the asset's pools raise a not-found error and leave
   every pool, selection and legacy URL field unchanged. *)
C22_UnknownVariantNotFound ==
    [][(/\ last'.op \in {"select_asset_variant", "delete_asset_variant"}
        /\ last'.asset_type = "scene"
        /\ last'.variant_id \notin EntityIds("scene"))
       => /\ last'.raised
          /\ scene' = scene]_vars

\* the part of C22 the code keeps: the unknown id changes nothing
C22_UnknownVariantNoChange ==
    [][(/\ last'.op \in {"select_asset_variant", "delete_asset_variant"}
        /\ last'.asset_type = "scene"
        /\ last'.variant_id \notin EntityIds("scene"))
       => scene' = scene]_vars

\* what process_video_task leaves on record of a call's outcome
RecordedOutcome(ref) == [status |-> heap[ref].status, video_url |-> heap[ref].video_url]

(* C23: a video task whose polling budget was exhausted is recorded with an
   outcome that differs from the outcome recorded for a task the backend
   reported as failed. *)
C23_TimeoutDistinguishable ==
    \A i, j \in 1..Len(threads) :
        (/\ threads[i].pc = "done"
         /\ threads[j].pc = "done"
         /\ threads[i].result = "task timed out"
         /\ threads[j].result = "task failed")
        => RecordedOutcome(threads[i].ref) # RecordedOutcome(threads[j].ref)

\* the prompt each source of style offers, "" when it offers none
ArtDirectionPrompt(s) ==
    IF s.art_direction = <<>> THEN ""
    ELSE Get(s.art_direction[1], "positive_prompt", "")

LegacyPrompt(s, request) ==
    IF request.style_preset # "" THEN request.style_preset \o " style"
    ELSE IF s.style_preset # ""
    THEN s.style_preset \o " style"
             \o (IF s.style_prompt # "" THEN ", " \o s.style_prompt ELSE "")
    ELSE ""

FirstNonEmpty(prompts) ==
    LET set == {i \in 1..Len(prompts) : prompts[i] # ""}
    IN  IF set = {} THEN "" ELSE prompts[CHOOSE i \in set : \A j \in set : i <= j]

(* C24: the effective style prompt of a generate_asset call that applies
   style is the prompt of the first non-empty source in the order Art
   Direction, passed style override, legacy preset fields, and computing it
   leaves the project's style fields unchanged. *)
C24_StylePrecedence ==
    [][(last'.op = "generate_asset" /\ generation'.request.apply_style)
       => /\ generation'.effective_positive_prompt =
                 FirstNonEmpty(<<ArtDirectionPrompt(script),
                                 generation'.request.style_prompt,
                                 LegacyPrompt(script, generation'.request)>>)
          /\ script' = script]_vars

\* the precedence the code keeps: an Art Direction whose style_config holds
\* any key wins, whatever its positive_prompt
C24_PrecedenceByPresence ==
    [][(last'.op = "generate_asset" /\ generation'.request.apply_style)
       => /\ generation'.effective_positive_prompt =
                 IF script.art_direction # <<>> /\ DOMAIN script.art_direction[1] # {}
                 THEN ArtDirectionPrompt(script)
                 ELSE FirstNonEmpty(<<generation'.request.style_prompt,
                                      LegacyPrompt(script, generation'.request)>>)
          /\ script' = script]_vars

\* every backend call of the last request failed
AllFailed(call) ==
    /\ call.batch_size >= 1
    /\ \A i \in 1..call.batch_size : ~call.outcomes[i]

(* C25: a storyboard frame render in which every backend call fails raises
   to the caller of generate_storyboard_render, leaves the frame's status
   failed, and leaves the rendered pool's variants and selected_id as they
   were before the call. *)
C25_FailedRenderRaises ==
    [][(last'.op = "generate_storyboard_render" /\ AllFailed(last'))
       => /\ last'.raised
          /\ frame'.status = "failed"
          /\ frame'.rendered_image_asset = frame.rendered_image_asset]_vars

\* the part of C25 the code keeps: status failed and the pool unchanged
C25_FailedRenderKeepsPool ==
    [][(last'.op = "generate_storyboard_render" /\ AllFailed(last'))
       => /\ frame'.status = "failed"
          /\ frame'.rendered_image_asset = frame.rendered_image_asset]_vars

\* the ids of the tasks a list of task references holds
TaskIds(list) == {heap[list[i]].id : i \in 1..Len(list)}

(* C26: under every interleaving of process_video_task with
   delete_asset_video, every task in an asset's video_assets is also in the
   project's video_tasks. *)
C26_AssetVideosListed ==
    \A asset_id \in DOMAIN video_assets :
        TaskIds(video_assets[asset_id]) \subseteq TaskIds(video_tasks)

(* C27: after any sequence of generate, select and delete operations on a
   character, each legacy url field equals the url of its pool's selected
   variant, and is empty when the pool has no selection. *)
C27_LegacyUrlsFollowSelection ==
    /\ character.full_body_image_url = SelectedUrl(character.full_body_asset)
    /\ character.three_view_image_url = SelectedUrl(character.three_view_asset)
    /\ character.headshot_image_url = SelectedUrl(character.headshot_asset)

(* C28: a frame's selected_video_id, when set, is the id of a task in the
   project's video_tasks, after any sequence of select_video_for_frame and
   delete_asset_video operations. *)
C28_SelectedVideoListed ==
    frame.selected_video_id # None
        => frame.selected_video_id \in TaskIds(video_tasks)

\* the statuses a finished task has
Finished == {"completed", "failed"}

(* C29: every video task that enters processing eventually reaches
   completed or failed. *)
C29_ProcessingEnds ==
    \A ref \in 1..MaxPolledTasks :
        (ref <= Len(heap) /\ heap[ref].status = "processing")
            ~> (ref <= Len(heap) /\ heap[ref].status \in Finished)

\* the parts of C29 the code keeps: at most max_wait_time / poll_interval
\* polls per call, a call that raised leaves its task failed, and a call
\* that got its image runs to its end
C29_PollsBounded ==
    \A i \in 1..Len(threads) :
        /\ threads[i].elapsed <= max_wait_time
        /\ threads[i].elapsed \div poll_interval <= 60

C29_RaisedIsFailed ==
    \A i \in 1..Len(threads) :
        (/\ threads[i].pc \in {"acquire2", "write2", "done"}
         /\ threads[i].ref # 0
         /\ threads[i].result # "video_url")
        => heap[threads[i].ref].status = "failed"

C29_PollingEnds ==
    \A i \in 1..MaxPolledTasks :
        (i <= Len(threads) /\ threads[i].result = "image")
            ~> (i <= Len(threads) /\ threads[i].pc = "done")

\* the status the last _save_data call of generate_asset dumped
LastSaved(g) == g.saved[Len(g.saved)]

(* C30: when generate_asset returns or raises after it has found the target
   entity, the entity's status is completed or failed, never processing, and
   the last _save_data call was made after that status was set: it dumped
   the final status, on the success path and on the failure path alike. *)
C30_FinalStatusSaved ==
    [][last'.op = "generate_asset"
       => \A asset_type \in AssetTypes :
              last'.asset_type = asset_type
              => LET status == IF asset_type = "character" THEN character'.status
                               ELSE IF asset_type = "scene" THEN scene'.status
                               ELSE prop'.status
                 IN  /\ status = (IF last'.raised THEN "failed" ELSE "completed")
                     /\ generation'.saved # <<>>
                     /\ LastSaved(generation') = status]_vars

\* a character generation that raised after backend calls, saved as failed
C30_Witness ==
    /\ last.op = "generate_asset"
    /\ last.asset_type = "character"
    /\ last.raised
    /\ last.calls >= 1
    /\ character.status = "failed"
    /\ generation.saved = <<"processing", "failed">>

(* C3: cleanup_old_variants removes exactly the n - MAX_VARIANTS_PER_ASSET
   non-favorited variants with the smallest created_at when the pool holds
   n > MAX non-favorited variants with distinct created_at, removes nothing
   when n <= MAX, never removes a favorited variant, adds none, and leaves
   the variants of an all-favorited pool as they were. *)
C3_EvictsOldestNonFavorited ==
    retention.applied >= 1 =>
        LET inp == retention.input.variants
            out == retention.once.variants
            at == NonFavoritedAt(inp)
            n == Cardinality(at)
            removed == Ids(inp) \ Ids(out)
        IN  /\ (n > MAX_VARIANTS_PER_ASSET /\ DistinctCreatedAt(inp, at))
                 => removed = OldestIds(inp, at, n - MAX_VARIANTS_PER_ASSET)
            /\ n <= MAX_VARIANTS_PER_ASSET => removed = {}
            /\ \A i \in 1..Len(inp) :
                 inp[i].is_favorited => \E j \in 1..Len(out) : out[j] = inp[i]
            /\ Ids(out) \subseteq Ids(inp)
            /\ Len(out) = Cardinality(Ids(out))
            /\ at = {} => out = inp

\* C3 witness: an over-full pool with a favorited variant was cut by one
C3_Witness ==
    LET inp == retention.input.variants
        at == NonFavoritedAt(inp)
    IN  /\ retention.applied = 1
        /\ Cardinality(at) = MAX_VARIANTS_PER_ASSET + 1
        /\ Cardinality(at) < Len(inp)
        /\ DistinctCreatedAt(inp, at)
        /\ Len(retention.once.variants) = Len(inp) - 1

(* C4: cleanup_old_variants is idempotent: a second call right after the
   first leaves the same variants sequence and the same selected_id as the
   first call did, whatever the favorited flags and created_at values. *)
C4_CleanupIdempotent ==
    retention.applied = 2 => retention.twice = retention.once

====
